---- MODULE Spec2Model ----
(***************************************************************************)
(* The stream manager of src/m.py as a state machine.                      *)
(*                                                                         *)
(* The program is multi-threaded: the reconciliation thread (watcher), one *)
(* monitor thread per launched ffmpeg process, one thread per              *)
(* threading.Timer, and the main thread (boot, signal handler).  A handler *)
(* is one action, except where it blocks on the network or on a process    *)
(* (provisioning inside watcher and rotate_stream_key, the notification    *)
(* inside handle_stream_crash when called by a monitor, proc.wait inside   *)
(* the removal, the file write of save_cache inside rotate_stream_key):    *)
(* there it is cut in two actions, so that the other threads interleave    *)
(* where they can in the program.  Time is abstracted: a pending timer may *)
(* fire at any moment.                                                     *)
(***************************************************************************)
EXTENDS Integers, FiniteSets, Sequences, TLC

\* ------------------------------------------------------------------ bounds
Streams == {"A", "B"}      \* the stream IDs of the model
MaxProc == 2               \* ffmpeg processes the model lets Popen create
MaxLive == 3               \* credential records provisioned per stream ID
MaxList == 2               \* entries in the list the desired-state source returns

Pids  == 1..MaxProc
NoPid == 0
NoStream == "-"
NoToken == "-"
Tokens == {"t1", "t2"}

\* ------------------------------------------------------ credential records
\* StreamCache, lines 57-62.  The record that get_stream_and_dash returns
\* for the n-th live video created for a stream ID carries n in every field;
\* the record found in the cache file at boot is the first one.
Fields == {"liveId", "stream_url", "dash", "status"}
RequiredFields == {"liveId", "stream_url", "dash"}
UnknownStatus == 0
Rec(n) == [liveId |-> n, stream_url |-> n, dash |-> n, status |-> n]
CacheRecords == [liveId : 0..MaxLive, stream_url : 0..MaxLive,
                 dash : 0..MaxLive, status : 0..MaxLive]
NoCred == [absent |-> TRUE]
EmptyCache == [s \in Streams |-> NoCred]

\* ------------------------------------------------------- desired-state list
\* An entry of the list the API returns: name and source are strings (here
\* sequences of characters), the token is kept abstract.
Space == " "
RawNames == {<<" ", "A">>, <<"B", " ">>}
RawSources == {<<"x", " ">>}
RawItems == [name : RawNames, source : RawSources, token : Tokens]

\* str.strip()
RECURSIVE lstrip(_)
lstrip(str) ==
    IF str # <<>> /\ Head(str) = Space THEN lstrip(Tail(str)) ELSE str
RECURSIVE rstrip(_)
rstrip(str) ==
    IF str # <<>> /\ str[Len(str)] = Space
    THEN rstrip(SubSeq(str, 1, Len(str) - 1)) ELSE str
strip(str) == rstrip(lstrip(str))

\* hashlib.md5(combined).hexdigest()[:8], line 216: some fixed function of
\* the combined string; the model's one tells the IDs of the model apart by
\* the first character.
md5_8(combined) ==
    IF combined # <<>> /\ Head(combined) = "A" THEN "A" ELSE "B"

generate_stream_id(name, source) ==
    md5_8(strip(name) \o <<"|">> \o strip(source))

\* fetch_api_list, lines 587-593: the ID of one entry of the list.
ItemId(r) == generate_stream_id(strip(r.name), strip(r.source))

\* fetch_api_list, lines 586-600: the dict built from the list `data`, from
\* stream ID to the token of the descriptor; a later entry with the same ID
\* overwrites an earlier one.
fetch_api_list(data) ==
    LET ids == {ItemId(data[i]) : i \in DOMAIN data}
        last(s) == CHOOSE i \in DOMAIN data :
                     /\ ItemId(data[i]) = s
                     /\ \A j \in DOMAIN data : ItemId(data[j]) = s => j <= i
    IN  [s \in ids |-> data[last(s)].token]

FetchIds(data) == DOMAIN fetch_api_list(data)
TokensOf(items) ==
    [s \in Streams |-> IF s \in DOMAIN items THEN items[s] ELSE NoToken]

\* The lists the source may return when it knows the IDs of U.
FetchLists(U) ==
    UNION {[1..n -> {r \in RawItems : ItemId(r) \in U}] : n \in 0..MaxList}

\* The value of last_fetch after a failed fetch.
FetchFailed == {NoStream}

\* --------------------------------------------------------------- cache file
\* The file CACHE_FILE: absent, blank (empty or white space), garbage (not
\* JSON, or JSON that is no object) or a JSON object, the sequence of its
\* <<key, value>> entries, each value a JSON object itself.
FileKinds == {"absent", "blank", "garbage", "json"}
NoFile == [kind |-> "absent", entries |-> <<>>]
StreamSeq == <<"A", "B">>

\* vars(v) with the status left out.
record_vars_nostatus(rec) == [f \in RequiredFields |-> rec[f]]

\* save_cache, line 117: vars(v), the JSON object of a record.
record_vars(rec) == [f \in Fields |-> rec[f]]

\* save_cache, lines 117-119: the JSON text json.dump writes for the cache
\* `mem`.  (The entries are written in a fixed order of the keys.)
RECURSIVE dump(_, _)
dump(mem, i) ==
    IF i > Len(StreamSeq) THEN <<>>
    ELSE (IF mem[StreamSeq[i]] # NoCred
          THEN << <<StreamSeq[i], record_vars(mem[StreamSeq[i]])>> >>
          ELSE <<>>) \o dump(mem, i + 1)

\* Nothing is written.
save_cache_skipped(mem) == NoFile

\* save_cache, lines 115-122: the file as json.dump writes it.
save_cache(mem) == [kind |-> "json", entries |-> dump(mem, 1)]

\* StreamCache(**v), line 101: raises unless v has the three required
\* fields and no unknown one; a missing status takes the default.
ValidEntry(obj) == DOMAIN obj \subseteq Fields /\ RequiredFields \subseteq DOMAIN obj
StreamCache(obj) ==
    [f \in Fields |-> IF f \in DOMAIN obj THEN obj[f] ELSE UnknownStatus]

\* load_cache, lines 100-101: the entries are stored one by one until one
\* of them raises.
RECURSIVE read_entries(_, _, _)
read_entries(entries, i, acc) ==
    IF i > Len(entries) THEN [ok |-> TRUE, cache |-> acc]
    ELSE IF ~ValidEntry(entries[i][2]) THEN [ok |-> FALSE, cache |-> acc]
    ELSE read_entries(entries, i + 1,
                      [acc EXCEPT ![entries[i][1]] = StreamCache(entries[i][2])])

\* The entries read before the corruption are kept.
cleared_keep(partial) == partial

\* load_cache, line 113: stream_cache.clear().
cleared(partial) == EmptyCache

\* load_cache() into the empty cache of a starting process: the cache it
\* leaves and whether it took the file for corrupted (lines 104-113).
load_cache(file) ==
    IF file.kind \in {"absent", "blank"}
    THEN [cache |-> EmptyCache, corrupted |-> FALSE]
    ELSE IF file.kind = "garbage"
    THEN [cache |-> cleared(EmptyCache), corrupted |-> TRUE]
    ELSE LET r == read_entries(file.entries, 1, EmptyCache)
         IN  IF r.ok THEN [cache |-> r.cache, corrupted |-> FALSE]
                     ELSE [cache |-> cleared(r.cache), corrupted |-> TRUE]

\* load_cache, lines 107-109: a corrupted file is renamed.
FileAfterLoad(file) == IF load_cache(file).corrupted THEN NoFile ELSE file

\* The cache files the model lets boot() find.
BadEntry == [liveId |-> 1]
InitFiles ==
    { NoFile,
      [kind |-> "blank", entries |-> <<>>],
      [kind |-> "garbage", entries |-> <<>>],
      [kind |-> "json", entries |-> <<>>],
      [kind |-> "json", entries |-> << <<"A", record_vars(Rec(1))>> >>],
      [kind |-> "json", entries |-> << <<"A", record_vars(Rec(1))>>, <<"B", BadEntry>> >>] }

\* The value of rot_save when no write is under way.
NoSave == [kind |-> "none", entries |-> <<>>]

VARIABLES
    universe,                \* the stream IDs the desired-state source can return
    system_state,            \* m.py:66   "running" | "stopping"
    api_items,               \* m.py:67   the tracked stream IDs
    active_streams,          \* m.py:68   stream ID -> pid of its Popen handle, NoPid if absent
    stream_cache,            \* m.py:69   stream ID -> credential record, NoCred if absent
    stream_start_times,      \* m.py:70   stream ID -> has a start time
    stream_rotation_timers,  \* m.py:71   stream ID -> "none" | "pending" | "dead"
    restart_timers,          \* m.py:72   stream ID -> "none" | "pending" | "dead"
    server_states,           \* m.py:73   stream ID -> lifecycle state, "none" if absent
    live_seq,                \* the last credential record provisioned for each ID
    restart_orphans,         \* pending restart timers no longer held by restart_timers
    new_timers,              \* pending Timer(newServerDelay, start_new_server)
    afterrot_timers,         \* pending Timer(newServerDelay, start_ffmpeg_after_rotation)
    retry_timers,            \* pending Timer(300, rotate_stream_key)
    rot_threads,             \* rotate_stream_key calls waiting for the new credential
    startup_timer,           \* "none" | "pending" | "fired" | "cancelled"
    sa_todo,                 \* items start_all_servers has still to iterate over
    proc_sid,                \* pid -> the stream ID it was launched for
    proc_status,             \* pid -> "unborn" | "alive" | "exited" | "killed_<by>"
    mon_pc,                  \* pid -> position of its monitor thread
    w_pc,                    \* watcher thread: "idle" | "cycle"
    w_new,                   \* watcher: new_list of the running cycle
    w_alias,                 \* watcher: new_list is the api_items object itself
    w_add,                   \* watcher: new IDs still to provision in this cycle
    w_rem,                   \* watcher: vanished IDs still to remove in this cycle
    w_cur,                   \* watcher: the ID whose removal waits in stop_ffmpeg
    booted,                  \* boot() has run
    crash_notes,             \* crash notifications sent per stream ID
    rot_notes,               \* rotation notifications sent per stream ID
    removed,                 \* IDs whose removal completed and that were not desired since
    item_token,              \* m.py:67   the token of the descriptor of each tracked ID
    w_tokens,                \* watcher: the tokens of the descriptors in new_list
    last_fetch,              \* the IDs the last fetch_api_list call returned, FetchFailed if it failed
    boot_items,              \* the IDs boot() fetched
    cache_file,              \* the file CACHE_FILE
    backup_made,             \* load_cache renamed a corrupted cache file
    rot_save,                \* rotate_stream_key: the data save_cache is writing, NoSave if none
    tg_log,                  \* the notification whose failure tg logged last; "off": log not observed
    gsd,                     \* the running call of get_stream_and_dash (m.py:167-205)
    bot                      \* m.py:684  last_command_time, with the clock and the accepted commands

streamVars == <<active_streams, stream_start_times, stream_rotation_timers,
                restart_timers, server_states, restart_orphans,
                proc_sid, proc_status, mon_pc, crash_notes>>
credVars   == <<stream_cache, live_seq>>
timerVars  == <<new_timers, afterrot_timers, retry_timers>>
watchVars  == <<w_pc, w_new, w_alias, w_add, w_rem, w_cur>>
descVars   == <<item_token, w_tokens, last_fetch, boot_items>>
fileVars   == <<cache_file, backup_made, rot_save>>
stateVars ==
    <<universe, system_state, api_items, streamVars, credVars, timerVars, rot_threads,
      startup_timer, sa_todo, watchVars, booted, rot_notes, removed,
      descVars, fileVars>>
supervisorVars == <<stateVars, tg_log>>
vars == <<supervisorVars, gsd, bot>>

LifecycleStates == {"none", "starting", "running", "restarting", "rotating", "failed"}
TimerStates == {"none", "pending", "dead"}
ProcStates == {"unborn", "alive", "exited", "killed_crash", "killed_rotation",
               "killed_removal", "killed_shutdown"}
MonStates == {"none", "wait", "notify", "swallowed", "crashed", "aborted", "ended"}

\* ---------------------------------------------------- destination resolution
\* get_stream_and_dash, line 172: range(15).
MaxAttempts == 15

\* The reply to one GET of the live video: the response is not ok (line
\* 177), its JSON holds "error" (line 184), requests.get or response.json
\* raises (line 199), or the JSON object `data` holds some of the fields.
ReplyFields == {"stream_url", "dash_preview_url", "status"}
ReplyValues == {1, 2}
DataObjects == UNION {[D -> ReplyValues] : D \in SUBSET ReplyFields}
FailedReplies == {[kind |-> k, data |-> <<>>] : k \in {"http_error", "api_error", "exception"}}
Replies == FailedReplies \cup {[kind |-> "data", data |-> d] : d \in DataObjects}

\* line 189: "stream_url" in data.
has_stream_url(reply) == reply.kind = "data" /\ "stream_url" \in DOMAIN reply.data

\* dict.get(key, default), lines 194-195.
get(d, key, default) == IF key \in DOMAIN d THEN d[key] ELSE default

\* "N/A", line 194.
NoDash == 0

\* lines 191-196: the record built from the reply.
preview(live_id, data) ==
    [liveId |-> live_id,
     stream_url |-> data["stream_url"],
     dash |-> get(data, "dash_preview_url", NoDash),
     status |-> get(data, "status", UnknownStatus)]

\* Only a reply without the URL is retried; an error ends the call.
retries_pending_only(reply) == reply.kind = "data"

\* lines 177-203: after a response that is not ok, an error reply, an
\* exception and a reply without the URL the loop goes on.
retries(reply) == TRUE

LiveIds == {1, 2}
GsdIdle == [pc |-> "idle", live_id |-> 0, attempt |-> 0, result |-> NoCred]

\* ---------------------------------------------------------- bot commands
Requesters == {"u1", "u2", "u3", "u4"}
Commands == {"/info", "/status", "/help", "other"}
MaxClock == 6              \* seconds the model lets the clock run
RateWindow == 5            \* handle_telegram_command, line 724: now - last_time < 5
TableLimit == 2            \* entries kept before the clean-up (100 in line 731)
TableKeep == 1             \* entries the clean-up keeps (80 in line 734)
\* line 722: the requester has no entry in last_command_time.
NoTime == -1
BotIdle == [now |-> 0,
            last_command_time |-> [u \in Requesters |-> NoTime],
            accepted |-> [u \in Requesters |-> NoTime]]

\* ------------------------------------------------------------ notification
\* tg, lines 134-143: the request succeeds, the reply is not ok, or
\* requests.post / response.json raises.
TgOutcomes == {"ok", "error_reply", "exception"}

\* The notifications that changes of state emit, and the replies to commands.
TgSites == {"crash", "rotation", "boot", "shutdown", "command"}

\* The exception of the request leaves tg.
tg_returns_unguarded(out) == out # "exception"

\* tg, lines 130-143: the whole request is inside try/except Exception, so
\* tg returns to its caller whatever the outcome.
tg_returns(out) == TRUE

\* tg, lines 140-143, called for the notification `site`: an error reply
\* and an exception are logged.
tg(site, out) ==
    tg_log' = IF tg_log = "off" \/ out = "ok" THEN tg_log ELSE site

TypeOK ==
    /\ universe \subseteq Streams
    /\ system_state \in {"running", "stopping"}
    /\ api_items \subseteq Streams
    /\ active_streams \in [Streams -> Pids \cup {NoPid}]
    /\ stream_cache \in [Streams -> CacheRecords \cup {NoCred}]
    /\ stream_start_times \in [Streams -> BOOLEAN]
    /\ stream_rotation_timers \in [Streams -> TimerStates]
    /\ restart_timers \in [Streams -> TimerStates]
    /\ server_states \in [Streams -> LifecycleStates]
    /\ live_seq \in [Streams -> 1..MaxLive]
    /\ restart_orphans \in [Streams -> Nat]
    /\ new_timers \in [Streams -> Nat]
    /\ afterrot_timers \in [Streams -> Nat]
    /\ retry_timers \in [Streams -> Nat]
    /\ rot_threads \in [Streams -> Nat]
    /\ startup_timer \in {"none", "pending", "fired", "cancelled"}
    /\ sa_todo \subseteq Streams
    /\ proc_sid \in [Pids -> Streams \cup {NoStream}]
    /\ proc_status \in [Pids -> ProcStates]
    /\ mon_pc \in [Pids -> MonStates]
    /\ w_pc \in {"idle", "cycle"}
    /\ w_new \subseteq Streams
    /\ w_alias \in BOOLEAN
    /\ w_add \subseteq Streams
    /\ w_rem \subseteq Streams
    /\ w_cur \in Streams \cup {NoStream}
    /\ booted \in BOOLEAN
    /\ crash_notes \in [Streams -> Nat]
    /\ rot_notes \in [Streams -> Nat]
    /\ removed \subseteq Streams
    /\ item_token \in [Streams -> Tokens \cup {NoToken}]
    /\ w_tokens \in [Streams -> Tokens \cup {NoToken}]
    /\ last_fetch \subseteq Streams \cup {NoStream}
    /\ boot_items \subseteq Streams
    /\ cache_file.kind \in FileKinds
    /\ \A i \in DOMAIN cache_file.entries :
          /\ cache_file.entries[i][1] \in Streams
          /\ DOMAIN cache_file.entries[i][2] \subseteq Fields
    /\ backup_made \in BOOLEAN
    /\ \A s \in Streams : rot_save[s].kind \in {"none", "json"}
    /\ tg_log \in {"off", "clean"} \cup TgSites
    /\ gsd.pc \in {"idle", "loop", "returned", "raised"}
    /\ gsd.attempt \in 0..MaxAttempts
    /\ bot.now \in 0..MaxClock
    /\ bot.last_command_time \in [Requesters -> NoTime..MaxClock]
    /\ bot.accepted \in [Requesters -> NoTime..MaxClock]

\* The module-level state of m.py before boot() runs.
InitState ==
    /\ system_state = "running"
    /\ api_items = {}
    /\ active_streams = [s \in Streams |-> NoPid]
    /\ stream_cache = EmptyCache
    /\ stream_start_times = [s \in Streams |-> FALSE]
    /\ stream_rotation_timers = [s \in Streams |-> "none"]
    /\ restart_timers = [s \in Streams |-> "none"]
    /\ server_states = [s \in Streams |-> "none"]
    /\ live_seq = [s \in Streams |-> 1]
    /\ restart_orphans = [s \in Streams |-> 0]
    /\ new_timers = [s \in Streams |-> 0]
    /\ afterrot_timers = [s \in Streams |-> 0]
    /\ retry_timers = [s \in Streams |-> 0]
    /\ rot_threads = [s \in Streams |-> 0]
    /\ startup_timer = "none"
    /\ sa_todo = {}
    /\ proc_sid = [p \in Pids |-> NoStream]
    /\ proc_status = [p \in Pids |-> "unborn"]
    /\ mon_pc = [p \in Pids |-> "none"]
    /\ w_pc = "idle"
    /\ w_new = {}
    /\ w_alias = FALSE
    /\ w_add = {}
    /\ w_rem = {}
    /\ w_cur = NoStream
    /\ booted = FALSE
    /\ crash_notes = [s \in Streams |-> 0]
    /\ rot_notes = [s \in Streams |-> 0]
    /\ removed = {}
    /\ item_token = [s \in Streams |-> NoToken]
    /\ w_tokens = [s \in Streams |-> NoToken]
    /\ last_fetch = {}
    /\ boot_items = {}
    /\ backup_made = FALSE
    /\ rot_save = [s \in Streams |-> NoSave]
    /\ bot = BotIdle

\* One stream ID known to the desired-state source.
Init ==
    /\ universe = {"A"}
    /\ cache_file \in InitFiles
    /\ tg_log = "off"
    /\ gsd = GsdIdle
    /\ InitState

\* ------------------------------------------------------------ provisioning
\* create_live + get_stream_and_dash succeeded: the record stored for s.
\* A record read from the cache file is record 1; provisioned ones follow.
CanProvision(s) == live_seq[s] < MaxLive
NextLive(s) == live_seq[s] + 1
NewRecord(s) == Rec(NextLive(s))

\* ------------------------------------------------------------------- boot
\* Every desired ID counts as missing.
missing_items_all(desired, cache) == desired

\* boot, line 825: the desired IDs without a record in the loaded cache.
missing_items(desired, cache) == {s \in desired : cache[s] = NoCred}

\* boot(): load_cache reads the cache file, fetch_api_list returns the items
\* of `data` (none when the fetch fails), a record is provisioned and saved
\* for each missing ID unless its provisioning fails (the IDs of `failing`),
\* the startup timer is armed and the watcher thread started.  The startup
\* notification (line 814) is sent with outcome `out` before the
\* provisioning; an exception there ends boot and the program (lines 858-861).
boot_notified(data, failing, out) ==
    LET items   == fetch_api_list(data)
        desired == DOMAIN items
        loaded  == load_cache(cache_file)
        created == IF tg_returns(out)
                   THEN missing_items(desired, loaded.cache) \ failing
                   ELSE {}
    IN  /\ ~booted
        /\ booted' = TRUE
        /\ api_items' = desired
        /\ item_token' = TokensOf(items)
        /\ last_fetch' = desired
        /\ boot_items' = desired
        /\ stream_cache' = [s \in Streams |->
                IF s \in created THEN NewRecord(s) ELSE loaded.cache[s]]
        /\ live_seq' = [s \in Streams |->
                IF s \in created THEN NextLive(s) ELSE live_seq[s]]
        /\ cache_file' = IF created # {} THEN save_cache(stream_cache')
                                         ELSE FileAfterLoad(cache_file)
        /\ backup_made' = loaded.corrupted
        /\ startup_timer' = IF tg_returns(out) THEN "pending" ELSE "none"
        /\ system_state' = IF tg_returns(out) THEN system_state ELSE "stopping"
        /\ UNCHANGED <<universe, gsd, bot, streamVars, timerVars, rot_threads,
                       sa_todo, watchVars, rot_notes, removed, w_tokens, rot_save>>

boot(data, failing) ==
    \E out \in TgOutcomes : tg("boot", out) /\ boot_notified(data, failing, out)

\* ----------------------------------------------------------------- ffmpeg
HasFreePid == \E p \in Pids : proc_status[p] = "unborn"
NewPid == CHOOSE p \in Pids :
            /\ proc_status[p] = "unborn"
            /\ \A q \in Pids : q < p => proc_status[q] # "unborn"

\* Every live process is terminated.
Terminated_all(s, by) ==
    [p \in Pids |-> IF proc_status[p] = "alive" THEN by ELSE proc_status[p]]

\* stop_ffmpeg, lines 363-371: the process behind the handle of s is
\* terminated and waited for; `by` records who did it.
Terminated(s, by) ==
    IF active_streams[s] # NoPid /\ proc_status[active_streams[s]] = "alive"
    THEN [proc_status EXCEPT ![active_streams[s]] = by]
    ELSE proc_status

\* stop_ffmpeg, lines 387-391: the clean-up, done only when s had a handle.
StartTimesAfterStop(s) ==
    IF active_streams[s] # NoPid
    THEN [stream_start_times EXCEPT ![s] = FALSE]
    ELSE stream_start_times

\* handle_stream_crash, lines 344-355: Restarting, stop, arm the restart
\* timer.  The timer pending in restart_timers, if any, is overwritten
\* without being cancelled: it stays pending outside the map.
crash_restart(s, rt, ro) ==
    /\ server_states' = [server_states EXCEPT ![s] = "restarting"]
    /\ proc_status' = Terminated(s, "killed_crash")
    /\ active_streams' = [active_streams EXCEPT ![s] = NoPid]
    /\ stream_start_times' = StartTimesAfterStop(s)
    /\ restart_orphans' = [ro EXCEPT ![s] =
            IF rt[s] = "pending" THEN @ + 1 ELSE @]
    /\ restart_timers' = [rt EXCEPT ![s] = "pending"]

\* handle_stream_crash, lines 334-355, called with the restart timers as
\* the caller left them: the crash report is sent with outcome `out`, then
\* the restart is arranged.
handle_stream_crash(s, out, rt, ro) ==
    /\ crash_notes' = [crash_notes EXCEPT ![s] = @ + 1]
    /\ IF tg_returns(out)
       THEN crash_restart(s, rt, ro)
       ELSE /\ restart_timers' = rt
            /\ restart_orphans' = ro
            /\ UNCHANGED <<server_states, proc_status, active_streams,
                           stream_start_times>>

\* The re-entrancy guard left out.
start_guard_off(s) == FALSE

\* start_ffmpeg, line 228: the re-entrancy guard.
start_guard(s) == server_states[s] \in {"starting", "restarting"}

\* start_ffmpeg(item) with the restart timers as the calling timer thread
\* left them (rt: restart_timers, ro: restart_orphans); ok says whether Popen
\* succeeds.
start_ffmpeg(s, ok, rt, ro) ==
    IF stream_cache[s] = NoCred \/ start_guard(s)
    THEN /\ restart_timers' = rt
         /\ restart_orphans' = ro
         /\ UNCHANGED <<active_streams, stream_start_times, stream_rotation_timers,
                        server_states, proc_sid, proc_status, mon_pc, crash_notes,
                        tg_log>>
    ELSE IF ok
    THEN /\ HasFreePid
         /\ proc_sid' = [proc_sid EXCEPT ![NewPid] = s]
         /\ proc_status' = [proc_status EXCEPT ![NewPid] = "alive"]
         /\ mon_pc' = [mon_pc EXCEPT ![NewPid] = "wait"]
         /\ active_streams' = [active_streams EXCEPT ![s] = NewPid]
         /\ stream_start_times' = [stream_start_times EXCEPT ![s] = TRUE]
         /\ server_states' = [server_states EXCEPT ![s] = "running"]
         /\ restart_timers' = [rt EXCEPT ![s] = "none"]
         /\ stream_rotation_timers' = [stream_rotation_timers EXCEPT ![s] = "pending"]
         /\ restart_orphans' = ro
         /\ UNCHANGED <<crash_notes, tg_log>>
    ELSE \* Popen raised: handle_stream_crash in state 'starting'
         /\ \E out \in TgOutcomes :
                /\ tg("crash", out)
                /\ handle_stream_crash(s, out, [rt EXCEPT ![s] = "none"], ro)
         /\ UNCHANGED <<stream_rotation_timers, proc_sid, mon_pc>>

\* start_all_servers: the startup timer fires and the loop over api_items
\* begins; one iteration, StartAllStep, is one start_ffmpeg call.
StartupFire ==
    /\ startup_timer = "pending"
    /\ startup_timer' = "fired"
    /\ sa_todo' = api_items
    /\ UNCHANGED <<universe, gsd, bot, tg_log, descVars, fileVars, system_state, api_items, streamVars, credVars, timerVars,
                   rot_threads, watchVars, booted, rot_notes, removed>>

StartAllStep(s, ok) ==
    /\ s \in sa_todo
    /\ s \in api_items
    /\ sa_todo' = sa_todo \ {s}
    /\ start_ffmpeg(s, ok, restart_timers, restart_orphans)
    /\ UNCHANGED <<universe, gsd, bot, descVars, fileVars, system_state, api_items, credVars, timerVars, rot_threads,
                   startup_timer, watchVars, booted, rot_notes, removed>>

\* ---------------------------------------------------------------- monitor
\* The process exits by itself (any exit code).
ProcExit(p) ==
    /\ proc_status[p] = "alive"
    /\ proc_status' = [proc_status EXCEPT ![p] = "exited"]
    /\ UNCHANGED <<universe, gsd, bot, tg_log, descVars, fileVars, system_state, api_items, active_streams, stream_start_times,
                   stream_rotation_timers, restart_timers, server_states,
                   restart_orphans, proc_sid, mon_pc, crash_notes, credVars,
                   timerVars, rot_threads, startup_timer, sa_todo, watchVars,
                   booted, rot_notes, removed>>

\* handle_stream_crash, lines 334-340, in the monitor thread: the crash
\* report is sent with outcome `out`.
monitor_report(p, out) ==
    /\ crash_notes' = [crash_notes EXCEPT ![proc_sid[p]] = @ + 1]
    /\ mon_pc' = [mon_pc EXCEPT ![p] = IF tg_returns(out) THEN "notify" ELSE "aborted"]

\* The return codes of an ffmpeg process: zero and nonzero.
ExitCodes == {0, 1}

\* Only a nonzero return code counts as a crash.
exit_is_crash_nonzero(code) == code # 0

\* monitor_ffmpeg_process, lines 307-313: both branches of the return-code
\* test call handle_stream_crash.
exit_is_crash(code) == TRUE

\* monitor_ffmpeg_process, lines 304-313, and handle_stream_crash up to its
\* crash report (lines 321-340): communicate() returned with `code`; the
\* exit is swallowed when the state is 'rotating', else the crash
\* notification is sent.
monitor_exit(p, code) ==
    IF ~exit_is_crash(code)
    THEN /\ mon_pc' = [mon_pc EXCEPT ![p] = "ended"]
         /\ UNCHANGED <<crash_notes, tg_log>>
    ELSE IF server_states[proc_sid[p]] = "rotating"
    THEN /\ mon_pc' = [mon_pc EXCEPT ![p] = "swallowed"]
         /\ UNCHANGED <<crash_notes, tg_log>>
    ELSE \E out \in TgOutcomes : tg("crash", out) /\ monitor_report(p, out)

\* The monitor thread of p sees the process end.
MonitorObserve(p) ==
    /\ mon_pc[p] = "wait"
    /\ proc_status[p] \notin {"unborn", "alive"}
    /\ \E code \in ExitCodes : monitor_exit(p, code)
    /\ UNCHANGED <<universe, gsd, bot, descVars, fileVars, system_state, api_items, active_streams, stream_start_times,
                   stream_rotation_timers, restart_timers, server_states,
                   restart_orphans, proc_sid, proc_status, credVars, timerVars,
                   rot_threads, startup_timer, sa_todo, watchVars, booted,
                   rot_notes, removed>>

\* handle_stream_crash, lines 344-355, in the monitor thread.
MonitorCrash(p) ==
    /\ mon_pc[p] = "notify"
    /\ mon_pc' = [mon_pc EXCEPT ![p] = "crashed"]
    /\ crash_restart(proc_sid[p], restart_timers, restart_orphans)
    /\ UNCHANGED <<universe, gsd, bot, tg_log, descVars, fileVars, system_state, api_items, stream_rotation_timers, proc_sid,
                   crash_notes, credVars, timerVars, rot_threads, startup_timer,
                   sa_todo, watchVars, booted, rot_notes, removed>>

\* restart_stream, called by a pending restart timer of s: the one held in
\* restart_timers (held) or one that the map lost when line 355 overwrote it.
RestartTimerFire(s, held, ok) ==
    /\ IF held THEN restart_timers[s] = "pending" ELSE restart_orphans[s] > 0
    /\ LET rt == IF held THEN [restart_timers EXCEPT ![s] = "dead"]
                         ELSE restart_timers
           ro == IF held THEN restart_orphans
                         ELSE [restart_orphans EXCEPT ![s] = @ - 1]
       IN  IF system_state = "running" /\ server_states[s] = "restarting"
           THEN start_ffmpeg(s, ok, rt, ro)
           ELSE /\ restart_timers' = rt
                /\ restart_orphans' = ro
                /\ UNCHANGED <<active_streams, stream_start_times,
                               stream_rotation_timers, server_states, proc_sid,
                               proc_status, mon_pc, crash_notes, tg_log>>
    /\ UNCHANGED <<universe, gsd, bot, descVars, fileVars, system_state, api_items, credVars, timerVars,
                   rot_threads, startup_timer, sa_todo, watchVars, booted,
                   rot_notes, removed>>

\* --------------------------------------------------------------- rotation
\* rotate_stream_key, lines 413-422: Rotating, stop the process, delete the
\* old record and save; the thread then waits for create_live.
rotate_begin(s) ==
    /\ server_states' = [server_states EXCEPT ![s] = "rotating"]
    /\ proc_status' = Terminated(s, "killed_rotation")
    /\ active_streams' = [active_streams EXCEPT ![s] = NoPid]
    /\ stream_start_times' = StartTimesAfterStop(s)
    /\ stream_cache' = [stream_cache EXCEPT ![s] = NoCred]
    /\ cache_file' = save_cache(stream_cache')
    /\ rot_threads' = [rot_threads EXCEPT ![s] = @ + 1]

\* The rotation timer armed by start_rotation_timer fires.
RotationTimerFire(s) ==
    /\ stream_rotation_timers[s] = "pending"
    /\ stream_rotation_timers' = [stream_rotation_timers EXCEPT ![s] = "dead"]
    /\ rotate_begin(s)
    /\ UNCHANGED <<universe, gsd, bot, tg_log, descVars, backup_made, rot_save, system_state, api_items,
                   restart_timers, restart_orphans,
                   proc_sid, mon_pc, crash_notes, live_seq, timerVars,
                   startup_timer, sa_todo, watchVars, booted, rot_notes, removed>>

\* The retry timer of lines 456-459 fires: rotate again if still running.
RetryTimerFire(s) ==
    /\ retry_timers[s] > 0
    /\ retry_timers' = [retry_timers EXCEPT ![s] = @ - 1]
    /\ IF system_state = "running"
       THEN rotate_begin(s)
       ELSE UNCHANGED <<server_states, proc_status, active_streams,
                        stream_start_times, stream_cache, cache_file, rot_threads>>
    /\ UNCHANGED <<universe, gsd, bot, tg_log, descVars, backup_made, rot_save, system_state, api_items, stream_rotation_timers, restart_timers,
                   restart_orphans, proc_sid, mon_pc, crash_notes, live_seq,
                   new_timers, afterrot_timers, startup_timer, sa_todo, watchVars,
                   booted, rot_notes, removed>>

\* rotate_stream_key, lines 426-431: the new record is obtained and stored
\* and save_cache has taken its copy of the cache (line 117); the thread
\* then writes the file.
RotateSuccess(s) ==
    /\ rot_threads[s] > 0
    /\ rot_save[s] = NoSave
    /\ CanProvision(s)
    /\ rot_threads' = [rot_threads EXCEPT ![s] = @ - 1]
    /\ stream_cache' = [stream_cache EXCEPT ![s] = NewRecord(s)]
    /\ live_seq' = [live_seq EXCEPT ![s] = NextLive(s)]
    /\ rot_save' = [rot_save EXCEPT ![s] = save_cache(stream_cache')]
    /\ UNCHANGED <<universe, gsd, bot, tg_log, descVars, cache_file, backup_made, system_state, api_items,
                   streamVars, timerVars, startup_timer, sa_todo, watchVars, booted,
                   rot_notes, removed>>

\* rotate_stream_key, lines 434-449: the rotation report is sent with
\* outcome `out`, the state becomes 'starting' and the start is scheduled;
\* an exception is handled by lines 451-459 like a failed rotation.
rotation_report(s, out) ==
    /\ rot_notes' = [rot_notes EXCEPT ![s] = @ + 1]
    /\ IF tg_returns(out)
       THEN /\ server_states' = [server_states EXCEPT ![s] = "starting"]
            /\ afterrot_timers' = [afterrot_timers EXCEPT ![s] = @ + 1]
            /\ UNCHANGED retry_timers
       ELSE /\ server_states' = [server_states EXCEPT ![s] = "failed"]
            /\ retry_timers' = [retry_timers EXCEPT ![s] = @ + 1]
            /\ UNCHANGED afterrot_timers

\* rotate_stream_key, lines 431-449: the file is written, the rotation is
\* notified, the state becomes 'starting' and the start is scheduled.
RotateSaved(s) ==
    /\ rot_save[s] # NoSave
    /\ cache_file' = rot_save[s]
    /\ rot_save' = [rot_save EXCEPT ![s] = NoSave]
    /\ \E out \in TgOutcomes : tg("rotation", out) /\ rotation_report(s, out)
    /\ UNCHANGED <<universe, gsd, bot, descVars, backup_made, system_state, api_items,
                   active_streams, stream_start_times, stream_rotation_timers,
                   restart_timers, restart_orphans, proc_sid, proc_status, mon_pc,
                   crash_notes, credVars, new_timers, rot_threads,
                   startup_timer, sa_todo, watchVars, booted, removed>>

\* rotate_stream_key, lines 451-459: create_live or get_stream_and_dash
\* raised; the state becomes 'failed' and the retry is scheduled.
RotateFail(s) ==
    /\ rot_threads[s] > 0
    /\ rot_threads' = [rot_threads EXCEPT ![s] = @ - 1]
    /\ server_states' = [server_states EXCEPT ![s] = "failed"]
    /\ retry_timers' = [retry_timers EXCEPT ![s] = @ + 1]
    /\ UNCHANGED <<universe, gsd, bot, tg_log, descVars, fileVars, system_state, api_items, active_streams, stream_start_times,
                   stream_rotation_timers, restart_timers, restart_orphans,
                   proc_sid, proc_status, mon_pc, crash_notes, credVars,
                   new_timers, afterrot_timers, startup_timer, sa_todo, watchVars,
                   booted, rot_notes, removed>>

\* start_ffmpeg_after_rotation, called by the timer of lines 446-449.
AfterRotationTimerFire(s, ok) ==
    /\ afterrot_timers[s] > 0
    /\ afterrot_timers' = [afterrot_timers EXCEPT ![s] = @ - 1]
    /\ IF system_state = "running" /\ server_states[s] = "starting"
       THEN start_ffmpeg(s, ok, restart_timers, restart_orphans)
       ELSE UNCHANGED <<streamVars, tg_log>>
    /\ UNCHANGED <<universe, gsd, bot, descVars, fileVars, system_state, api_items, credVars, new_timers, retry_timers,
                   rot_threads, startup_timer, sa_todo, watchVars, booted,
                   rot_notes, removed>>

\* start_new_server, called by the timer of lines 627-630.
NewServerTimerFire(s, ok) ==
    /\ new_timers[s] > 0
    /\ new_timers' = [new_timers EXCEPT ![s] = @ - 1]
    /\ IF system_state = "running" /\ server_states[s] = "starting"
       THEN start_ffmpeg(s, ok, restart_timers, restart_orphans)
       ELSE UNCHANGED <<streamVars, tg_log>>
    /\ UNCHANGED <<universe, gsd, bot, descVars, fileVars, system_state, api_items, credVars, afterrot_timers,
                   retry_timers, rot_threads, startup_timer, sa_todo, watchVars,
                   booted, rot_notes, removed>>

\* ---------------------------------------------------------------- watcher
\* Every fetched ID counts as new.
is_new_item_any(s) == TRUE

\* watcher, line 615: an ID of new_list is new when api_items lacks it.
is_new_item(s) == s \notin api_items

\* watcher, line 611: fetch_api_list.  A successful fetch returns the dict
\* built from the list `data`; a failed one returns the api_items object
\* itself (line 607).  The two loops then find the new and the vanished IDs.
WatcherFetch(ok, data) ==
    /\ booted
    /\ system_state = "running"
    /\ w_pc = "idle"
    /\ w_pc' = "cycle"
    /\ w_alias' = ~ok
    /\ LET items == fetch_api_list(data)
       IN  /\ w_new' = IF ok THEN DOMAIN items ELSE api_items
           /\ w_tokens' = IF ok THEN TokensOf(items) ELSE item_token
           /\ last_fetch' = IF ok THEN DOMAIN items ELSE FetchFailed
           /\ removed' = IF ok THEN removed \ DOMAIN items ELSE removed
    /\ w_add' = {s \in w_new' : is_new_item(s)}
    /\ w_rem' = {s \in api_items : s \notin w_new'}
    /\ UNCHANGED <<universe, gsd, bot, tg_log, item_token, boot_items, fileVars, system_state, api_items,
                   streamVars, credVars, timerVars, rot_threads, startup_timer,
                   sa_todo, w_cur, booted, rot_notes>>

\* watcher, lines 614-633: one iteration of the NEW ITEMS loop.  On success
\* the record is stored and saved, the state becomes 'starting' and
\* start_new_server is scheduled; on failure the error is logged.
WatcherAdd(s, ok) ==
    /\ w_pc = "cycle"
    /\ s \in w_add
    /\ w_add' = w_add \ {s}
    /\ IF ok
       THEN /\ CanProvision(s)
            /\ stream_cache' = [stream_cache EXCEPT ![s] = NewRecord(s)]
            /\ live_seq' = [live_seq EXCEPT ![s] = NextLive(s)]
            /\ cache_file' = save_cache(stream_cache')
            /\ server_states' = [server_states EXCEPT ![s] = "starting"]
            /\ new_timers' = [new_timers EXCEPT ![s] = @ + 1]
       ELSE UNCHANGED <<stream_cache, live_seq, cache_file, server_states, new_timers>>
    /\ UNCHANGED <<universe, gsd, bot, tg_log, descVars, backup_made, rot_save, system_state, api_items, active_streams, stream_start_times,
                   stream_rotation_timers, restart_timers, restart_orphans,
                   proc_sid, proc_status, mon_pc, crash_notes, afterrot_timers,
                   retry_timers, rot_threads, startup_timer, sa_todo, w_pc, w_new,
                   w_alias, w_rem, w_cur, booted, rot_notes, removed>>

\* watcher, lines 636-658: one iteration of the REMOVED ITEMS loop.  The
\* timers held in the two maps are cancelled and deleted.  Without a handle
\* stop_ffmpeg does nothing and the record, the start time and the state are
\* deleted at once; with a handle the process is terminated and the watcher
\* waits for it (stop_ffmpeg 363-371) before it goes on.
WatcherRemoveStop(s) ==
    /\ w_pc = "cycle"
    /\ w_add = {}
    /\ w_cur = NoStream
    /\ s \in w_rem
    /\ restart_timers' = [restart_timers EXCEPT ![s] = "none"]
    /\ stream_rotation_timers' = [stream_rotation_timers EXCEPT ![s] = "none"]
    /\ proc_status' = Terminated(s, "killed_removal")
    /\ IF active_streams[s] # NoPid
       THEN /\ w_cur' = s
            /\ UNCHANGED <<stream_start_times, server_states, stream_cache,
                           cache_file, w_rem, removed>>
       ELSE /\ w_cur' = NoStream
            /\ w_rem' = w_rem \ {s}
            /\ stream_start_times' = [stream_start_times EXCEPT ![s] = FALSE]
            /\ stream_cache' = [stream_cache EXCEPT ![s] = NoCred]
            /\ cache_file' = save_cache(stream_cache')
            /\ server_states' = [server_states EXCEPT ![s] = "none"]
            /\ removed' = removed \cup {s}
    /\ UNCHANGED <<universe, gsd, bot, tg_log, descVars, backup_made, rot_save, system_state, api_items, active_streams,
                   restart_orphans, proc_sid, mon_pc, crash_notes, live_seq,
                   timerVars, rot_threads, startup_timer, sa_todo, w_pc, w_new,
                   w_alias, w_add, booted, rot_notes>>

\* stop_ffmpeg 387-391 and watcher, lines 651-658, after the wait: the
\* handle, the record, the start time and the state of the removed ID are
\* deleted, the cache saved.
WatcherRemoveDelete(s) ==
    /\ w_pc = "cycle"
    /\ w_cur = s
    /\ w_cur' = NoStream
    /\ w_rem' = w_rem \ {s}
    /\ active_streams' = [active_streams EXCEPT ![s] = NoPid]
    /\ stream_start_times' = [stream_start_times EXCEPT ![s] = FALSE]
    /\ stream_cache' = [stream_cache EXCEPT ![s] = NoCred]
    /\ cache_file' = save_cache(stream_cache')
    /\ server_states' = [server_states EXCEPT ![s] = "none"]
    /\ removed' = removed \cup {s}
    /\ UNCHANGED <<universe, gsd, bot, tg_log, descVars, backup_made, rot_save, system_state, api_items, stream_rotation_timers,
                   restart_timers, restart_orphans, proc_sid, proc_status, mon_pc,
                   crash_notes, live_seq, timerVars, rot_threads, startup_timer,
                   sa_todo, w_pc, w_new, w_alias, w_add, booted, rot_notes>>

\* api_items is left as it was.
UpdatedItems_stale == api_items

\* watcher, lines 661-662: api_items.clear(); api_items.update(new_list).
\* When new_list is api_items itself, clear() empties both.  The cycle ends
\* and its local new_list is gone.
UpdatedItems == IF w_alias THEN {} ELSE w_new
UpdatedTokens == IF w_alias THEN [s \in Streams |-> NoToken] ELSE w_tokens

WatcherFinish ==
    /\ w_pc = "cycle"
    /\ w_add = {}
    /\ w_rem = {}
    /\ w_cur = NoStream
    /\ w_pc' = "idle"
    /\ api_items' = UpdatedItems
    /\ item_token' = UpdatedTokens
    /\ w_new' = {}
    /\ w_alias' = FALSE
    /\ w_tokens' = [s \in Streams |-> NoToken]
    /\ UNCHANGED <<universe, gsd, bot, tg_log, last_fetch, boot_items, fileVars, system_state, streamVars,
                   credVars, timerVars, rot_threads, startup_timer, sa_todo, w_add,
                   w_rem, w_cur, booted, rot_notes, removed>>

\* --------------------------------------------------------------- shutdown
\* graceful_shutdown: the startup timer and the timers held in the two maps
\* are cancelled, the maps cleared, every handle stopped.  The shutdown
\* notification (line 884) is sent with outcome `out` after the startup
\* timer is cancelled and before the maps are cleared.
shutdown_notified(out) ==
    /\ booted
    /\ system_state = "running"
    /\ system_state' = "stopping"
    /\ startup_timer' = IF startup_timer = "pending" THEN "cancelled" ELSE startup_timer
    /\ IF tg_returns(out)
       THEN /\ restart_timers' = [s \in Streams |-> "none"]
            /\ stream_rotation_timers' = [s \in Streams |-> "none"]
            /\ proc_status' = [p \in Pids |->
                    IF proc_status[p] = "alive" /\ active_streams[proc_sid[p]] = p
                    THEN "killed_shutdown" ELSE proc_status[p]]
            /\ active_streams' = [s \in Streams |-> NoPid]
            /\ stream_start_times' = [s \in Streams |->
                    IF active_streams[s] # NoPid THEN FALSE ELSE stream_start_times[s]]
       ELSE UNCHANGED <<restart_timers, stream_rotation_timers, proc_status,
                        active_streams, stream_start_times>>
    /\ UNCHANGED <<universe, gsd, bot, descVars, fileVars, api_items, server_states, restart_orphans, proc_sid,
                   mon_pc, crash_notes, credVars, timerVars, rot_threads, sa_todo,
                   watchVars, booted, rot_notes, removed>>

graceful_shutdown ==
    \E out \in TgOutcomes : tg("shutdown", out) /\ shutdown_notified(out)

\* ------------------------------------------------------------ specification
Next ==
    \/ ~booted /\ \E data \in FetchLists(universe), failing \in SUBSET universe :
                    boot(data, failing)
    \/ StartupFire
    \/ \E s \in Streams, ok \in BOOLEAN : StartAllStep(s, ok)
    \/ \E p \in Pids : ProcExit(p)
    \/ \E p \in Pids : MonitorObserve(p)
    \/ \E p \in Pids : MonitorCrash(p)
    \/ \E s \in Streams, held \in BOOLEAN, ok \in BOOLEAN : RestartTimerFire(s, held, ok)
    \/ \E s \in Streams : RotationTimerFire(s)
    \/ \E s \in Streams : RetryTimerFire(s)
    \/ \E s \in Streams : RotateSuccess(s)
    \/ \E s \in Streams : RotateSaved(s)
    \/ \E s \in Streams : RotateFail(s)
    \/ \E s \in Streams, ok \in BOOLEAN : AfterRotationTimerFire(s, ok)
    \/ \E s \in Streams, ok \in BOOLEAN : NewServerTimerFire(s, ok)
    \/ w_pc = "idle" /\ \E ok \in BOOLEAN, data \in FetchLists(universe) :
                            WatcherFetch(ok, data)
    \/ \E s \in Streams, ok \in BOOLEAN : WatcherAdd(s, ok)
    \/ \E s \in Streams : WatcherRemoveStop(s)
    \/ \E s \in Streams : WatcherRemoveDelete(s)
    \/ WatcherFinish
    \/ graceful_shutdown

Spec == Init /\ [][Next]_vars

\* ------------------------------------------------------------ two streams
\* The source knows both stream IDs; every entry carries the first token
\* and no list names an ID twice; boot finds no cache file; the list changes
\* only before the initial start, and the supervisor is not shut down.
ListsOfTwo ==
    {data \in FetchLists(Streams) :
        /\ \A i \in DOMAIN data : data[i].token = "t1"
        /\ \A i, j \in DOMAIN data : ItemId(data[i]) = ItemId(data[j]) => i = j}

InitTwo ==
    /\ universe = Streams
    /\ cache_file = NoFile
    /\ tg_log = "off"
    /\ gsd = GsdIdle
    /\ InitState

NextTwo ==
    \/ ~booted /\ \E data \in ListsOfTwo, failing \in SUBSET universe :
                    boot(data, failing)
    \/ StartupFire
    \/ \E s \in Streams, ok \in BOOLEAN : StartAllStep(s, ok)
    \/ \E p \in Pids : ProcExit(p)
    \/ \E p \in Pids : MonitorObserve(p)
    \/ \E p \in Pids : MonitorCrash(p)
    \/ \E s \in Streams, held \in BOOLEAN, ok \in BOOLEAN : RestartTimerFire(s, held, ok)
    \/ \E s \in Streams : RotationTimerFire(s)
    \/ \E s \in Streams : RetryTimerFire(s)
    \/ \E s \in Streams : RotateSuccess(s)
    \/ \E s \in Streams : RotateSaved(s)
    \/ \E s \in Streams : RotateFail(s)
    \/ \E s \in Streams, ok \in BOOLEAN : AfterRotationTimerFire(s, ok)
    \/ \E s \in Streams, ok \in BOOLEAN : NewServerTimerFire(s, ok)
    \/ w_pc = "idle" /\ startup_timer = "pending" /\
          \E data \in ListsOfTwo : WatcherFetch(TRUE, data)
    \/ \E s \in Streams, ok \in BOOLEAN : WatcherAdd(s, ok)
    \/ \E s \in Streams : WatcherRemoveStop(s)
    \/ \E s \in Streams : WatcherRemoveDelete(s)
    \/ WatcherFinish

SpecTwo == InitTwo /\ [][NextTwo]_vars

\* ------------------------------------------------- the notification log
\* One stream ID, no cache file, and the error lines that tg logs are
\* observed.
InitNotify ==
    /\ universe = {"A"}
    /\ cache_file = NoFile
    /\ tg_log = "clean"
    /\ gsd = GsdIdle
    /\ InitState

SpecNotify == InitNotify /\ [][Next]_vars

\* ------------------------------------------------- the monitor threads
\* One stream ID and no cache file; every monitor thread that can take a
\* step eventually takes it (threading.Thread(...).start(), lines 290-295:
\* the thread is scheduled as long as the program runs).
InitMonitor ==
    /\ universe = {"A"}
    /\ cache_file = NoFile
    /\ tg_log = "off"
    /\ gsd = GsdIdle
    /\ InitState

MonitorFairness ==
    \A p \in Pids : WF_vars(MonitorObserve(p)) /\ WF_vars(MonitorCrash(p))

SpecMonitor == InitMonitor /\ [][Next]_vars /\ MonitorFairness

\* --------------------------------------------- get_stream_and_dash alone
\* One call of get_stream_and_dash(live_id, token); every attempt gets one
\* of the replies.  An attempt ends in bounded time (timeout=10, sleep(2)),
\* so the loop always takes its next step.
InitResolve ==
    /\ universe = {"A"}
    /\ cache_file = NoFile
    /\ tg_log = "off"
    /\ gsd \in {[GsdIdle EXCEPT !.pc = "loop", !.live_id = l] : l \in LiveIds}
    /\ InitState

\* lines 172-203: one pass of the loop body.
ResolveAttempt(reply) ==
    /\ gsd.pc = "loop"
    /\ gsd.attempt < MaxAttempts
    /\ gsd' = IF has_stream_url(reply)
              THEN [gsd EXCEPT !.pc = "returned", !.attempt = @ + 1,
                               !.result = preview(gsd.live_id, reply.data)]
              ELSE IF retries(reply)
              THEN [gsd EXCEPT !.attempt = @ + 1]
              ELSE [gsd EXCEPT !.pc = "raised", !.attempt = @ + 1]
    /\ UNCHANGED <<supervisorVars, bot>>

\* line 205: the loop is over, the exception is raised.
ResolveExhausted ==
    /\ gsd.pc = "loop"
    /\ gsd.attempt = MaxAttempts
    /\ gsd' = [gsd EXCEPT !.pc = "raised"]
    /\ UNCHANGED <<supervisorVars, bot>>

NextResolve ==
    \/ \E reply \in Replies : ResolveAttempt(reply)
    \/ ResolveExhausted

SpecResolve == InitResolve /\ [][NextResolve]_vars /\ WF_vars(NextResolve)

\* ------------------------------------------------------- the bot by itself
\* telegram_bot_polling hands the updates to handle_telegram_command one
\* after the other; time.time() gives each call its own time stamp.
InitBot ==
    /\ universe = {"A"}
    /\ cache_file = NoFile
    /\ tg_log = "clean"
    /\ gsd = GsdIdle
    /\ InitState

\* Time passes between two updates.
BotTick ==
    /\ bot.now < MaxClock
    /\ bot' = [bot EXCEPT !.now = @ + 1]
    /\ UNCHANGED <<supervisorVars, gsd>>

\* lines 721-726: the requester has an entry younger than five seconds.
rate_limited(table, u, now) == table[u] # NoTime /\ now - table[u] < RateWindow

\* lines 731-735: a table of more than 100 entries is cut down to its 80
\* most recent ones (sorted by time stamp, all but the last 80 deleted).
clean_old_entries(table, now) ==
    IF Cardinality({u \in Requesters : table[u] # NoTime}) > TableLimit
    THEN [u \in Requesters |->
            IF Cardinality({v \in Requesters : table[v] > table[u]}) < TableKeep
            THEN table[u] ELSE NoTime]
    ELSE table

\* lines 709-770, for the message `command` of requester u.
handle_telegram_command(u, command) ==
    /\ system_state = "running"
    /\ \A v \in Requesters \ {u} : bot.last_command_time[v] # bot.now
    /\ IF rate_limited(bot.last_command_time, u, bot.now)
       THEN /\ \E out \in TgOutcomes : tg("command", out)
            /\ UNCHANGED bot
       ELSE /\ bot' = [bot EXCEPT
                        !.last_command_time =
                            clean_old_entries([@ EXCEPT ![u] = bot.now], bot.now),
                        !.accepted = IF command = "other" THEN @
                                     ELSE [@ EXCEPT ![u] = bot.now]]
            /\ IF command = "other"
               THEN UNCHANGED tg_log
               ELSE \E out \in TgOutcomes : tg("command", out)
    /\ UNCHANGED <<stateVars, gsd>>

NextBot ==
    \/ BotTick
    \/ \E u \in Requesters, command \in Commands : handle_telegram_command(u, command)

SpecBot == InitBot /\ [][NextBot]_vars

\* ------------------------------------------------ the cache file by itself
\* A process stores and deletes records and saves its cache (save_cache);
\* a process started afterwards loads the file into its empty cache
\* (load_cache, called by boot).  stream_cache is the cache of the first
\* process until the load, of the second from then on.
StoredRecords ==
    [liveId : 1..2, stream_url : {1}, dash : {1}, status : {UnknownStatus, 1}]

InitCache ==
    /\ universe = Streams
    /\ cache_file \in InitFiles
    /\ tg_log = "off"
    /\ gsd = GsdIdle
    /\ InitState

CacheStore(s, rec) ==
    /\ ~booted
    /\ stream_cache' = [stream_cache EXCEPT ![s] = rec]
    /\ UNCHANGED <<universe, gsd, bot, tg_log, system_state, api_items, streamVars, live_seq, timerVars,
                   rot_threads, startup_timer, sa_todo, watchVars, booted, rot_notes,
                   removed, descVars, fileVars>>

CacheDelete(s) ==
    /\ ~booted
    /\ stream_cache[s] # NoCred
    /\ stream_cache' = [stream_cache EXCEPT ![s] = NoCred]
    /\ UNCHANGED <<universe, gsd, bot, tg_log, system_state, api_items, streamVars, live_seq, timerVars,
                   rot_threads, startup_timer, sa_todo, watchVars, booted, rot_notes,
                   removed, descVars, fileVars>>

CacheSave ==
    /\ ~booted
    /\ cache_file' = save_cache(stream_cache)
    /\ UNCHANGED <<universe, gsd, bot, tg_log, system_state, api_items, streamVars, credVars, timerVars,
                   rot_threads, startup_timer, sa_todo, watchVars, booted, rot_notes,
                   removed, descVars, backup_made, rot_save>>

CacheLoad ==
    /\ ~booted
    /\ booted' = TRUE
    /\ stream_cache' = load_cache(cache_file).cache
    /\ cache_file' = FileAfterLoad(cache_file)
    /\ backup_made' = load_cache(cache_file).corrupted
    /\ UNCHANGED <<universe, gsd, bot, tg_log, system_state, api_items, streamVars, live_seq, timerVars,
                   rot_threads, startup_timer, sa_todo, watchVars, rot_notes, removed,
                   descVars, rot_save>>

NextCache ==
    \/ \E s \in Streams, rec \in StoredRecords : CacheStore(s, rec)
    \/ \E s \in Streams : CacheDelete(s)
    \/ CacheSave
    \/ CacheLoad

SpecCache == InitCache /\ [][NextCache]_vars

\* ------------------------------------------------------------------ claims
\* Popen was called for s in this step: a process was created for it, or
\* the failed launch was handled as a crash.
LaunchAttempted(s) ==
    \/ \E p \in Pids : /\ proc_status[p] = "unborn"
                       /\ proc_status'[p] = "alive"
                       /\ proc_sid'[p] = s
    \/ crash_notes'[s] = crash_notes[s] + 1

PendingRestart(s) ==
    (IF restart_timers[s] = "pending" THEN 1 ELSE 0) + restart_orphans[s]

PendingRotation(s) ==
    (IF stream_rotation_timers[s] = "pending" THEN 1 ELSE 0) + retry_timers[s]

AliveFor(s) == {p \in Pids : proc_sid[p] = s /\ proc_status[p] = "alive"}

\* C1: when the crash delay of a stream that is still tracked elapses (the
\* exit of its process was handled as a crash, it is Restarting and its
\* restart timer fires while the supervisor runs), the stream is launched
\* again.
C1_RestartAfterCrash ==
    [][\A s \in Streams : \A held \in BOOLEAN, ok \in BOOLEAN :
          ( /\ RestartTimerFire(s, held, ok)
            /\ system_state = "running"
            /\ s \in api_items
            /\ \E p \in Pids : proc_sid[p] = s /\ mon_pc[p] = "crashed"
            /\ stream_cache[s] # NoCred
            /\ server_states[s] = "restarting" )
          => LaunchAttempted(s)]_vars

\* C2: when the new-stream delay after a successful rotation elapses (the
\* stream is still Starting, has its new credential and the supervisor runs),
\* the process is launched again, so that Rotating -> Starting -> Running.
C2_LaunchAfterRotation ==
    [][\A s \in Streams : \A ok \in BOOLEAN :
          ( /\ AfterRotationTimerFire(s, ok)
            /\ system_state = "running"
            /\ stream_cache[s] # NoCred
            /\ server_states[s] = "starting" )
          => LaunchAttempted(s)]_vars

\* C3: when the new-stream delay of a newly provisioned stream elapses with
\* the stream still desired (Starting, credential stored, supervisor running),
\* its process is launched.
C3_NewStreamLaunched ==
    [][\A s \in Streams : \A ok \in BOOLEAN :
          ( /\ NewServerTimerFire(s, ok)
            /\ system_state = "running"
            /\ s \in api_items
            /\ stream_cache[s] # NoCred
            /\ server_states[s] = "starting" )
          => LaunchAttempted(s)]_vars

\* C4: a reconciliation cycle whose fetch failed leaves the tracked set as
\* it was.
C4_FailOpenFetch ==
    [][(w_pc = "cycle" /\ w_alias) => api_items' = api_items]_vars

\* C5: a desired stream that has no credential record and no lifecycle state
\* (its provisioning failed) is provisioned again by the next cycle that
\* fetches it.
C5_ProvisioningRetried ==
    [][\A data \in FetchLists(universe) : \A s \in FetchIds(data) :
          ( /\ WatcherFetch(TRUE, data)
            /\ stream_cache[s] = NoCred
            /\ server_states[s] = "none" )
          => s \in w_add']_vars

\* C6: an ID whose removal completed, and that was not desired since, has no
\* state, no handle, no live process, no credential record and no pending
\* restart or rotation timer.
C6_RemovalTeardown ==
    \A s \in removed :
        /\ server_states[s] = "none"
        /\ active_streams[s] = NoPid
        /\ AliveFor(s) = {}
        /\ stream_cache[s] = NoCred
        /\ PendingRestart(s) = 0
        /\ PendingRotation(s) = 0

\* No rotation of s has run or is under way.
NoRotationOf(s) ==
    /\ rot_threads[s] = 0
    /\ retry_timers[s] = 0
    /\ afterrot_timers[s] = 0
    /\ rot_notes[s] = 0
    /\ server_states[s] # "failed"

\* C7: once the removal of an ID and the monitor threads of its processes
\* have both finished, in whatever order their steps interleaved (and with no
\* rotation taking part), the ID has no state entry, no restart timer and no
\* process.
C7_RemovalRacingCrash ==
    \A s \in removed :
        ( /\ w_pc = "idle"
          /\ NoRotationOf(s)
          /\ \A p \in Pids : proc_sid[p] = s => mon_pc[p] \in {"swallowed", "crashed"} )
        => /\ server_states[s] = "none"
           /\ PendingRestart(s) = 0
           /\ AliveFor(s) = {}

\* C8: the monitor of a process that a rotation stopped never sends a crash
\* notification nor schedules a crash restart.
C8_RotationExitSwallowed ==
    \A p \in Pids :
        proc_status[p] = "killed_rotation" => mon_pc[p] \notin {"notify", "crashed"}

\* Between operations: no handler is waiting in the middle of its steps.
BetweenOperations ==
    /\ w_pc = "idle"
    /\ sa_todo \cap api_items = {}
    /\ \A p \in Pids : mon_pc[p] # "notify"
    /\ \A s \in Streams : rot_threads[s] = 0 /\ rot_save[s] = NoSave

\* C9: between operations a stream ID has a handle in active_streams iff its
\* state is Running.
C9_HandleIffRunning ==
    BetweenOperations =>
        \A s \in Streams : (active_streams[s] # NoPid) <=> (server_states[s] = "running")

\* C10: each stream ID has at most one pending restart timer and at most one
\* pending rotation timer (the rotation timer or its retry).
C10_OneTimerOfEachKind ==
    \A s \in Streams : PendingRestart(s) <= 1 /\ PendingRotation(s) <= 1

C10_Witness ==
    \E s \in Streams : PendingRestart(s) = 1 /\ PendingRotation(s) = 1

\* C11: a stream in state Starting, Running or Restarting has a credential
\* record in the cache; in state Rotating the record is absent only while a
\* rotate_stream_key call is between deleting the old record and storing the
\* new one.
C11_CredentialWhileActive ==
    \A s \in Streams :
        /\ server_states[s] \in {"starting", "running", "restarting"}
              => stream_cache[s] # NoCred
        /\ (server_states[s] = "rotating" /\ stream_cache[s] = NoCred)
              => rot_threads[s] > 0

\* start_ffmpeg(s) is called in this step by one of its four callers while s
\* is Starting or Restarting.
LaunchRequestedWhileBusy(s) ==
    /\ server_states[s] \in {"starting", "restarting"}
    /\ stream_cache[s] # NoCred
    /\ system_state = "running"
    /\ \E ok \in BOOLEAN :
          \/ StartAllStep(s, ok)
          \/ NewServerTimerFire(s, ok)
          \/ AfterRotationTimerFire(s, ok)
          \/ \E held \in BOOLEAN : RestartTimerFire(s, held, ok)

\* C12: at most one relay process is alive per stream ID after every step;
\* a launch request for a stream that is Starting or Restarting changes
\* neither its state, handle, start time, processes nor rotation timer; and
\* a step that puts a new handle in active_streams does not replace the
\* handle of a process that is still alive.
C12_OneProcessPerStream ==
    [][\A s \in Streams :
          /\ Cardinality(AliveFor(s))' <= 1
          /\ LaunchRequestedWhileBusy(s) =>
                /\ server_states'[s] = server_states[s]
                /\ active_streams'[s] = active_streams[s]
                /\ stream_start_times'[s] = stream_start_times[s]
                /\ stream_rotation_timers'[s] = stream_rotation_timers[s]
                /\ proc_status' = proc_status
                /\ proc_sid' = proc_sid
          /\ (active_streams'[s] \notin {NoPid, active_streams[s]}
                 /\ active_streams[s] # NoPid)
                => proc_status[active_streams[s]] # "alive"]_vars

\* A live process of s survived a launch request: s is Starting with a
\* live process and the timer that was to launch it has fired.
C12_Witness ==
    \E s \in Streams :
        /\ AliveFor(s) # {}
        /\ server_states[s] = "starting"
        /\ new_timers[s] = 0
        /\ afterrot_timers[s] = 0

\* d2 holds the entries of d1 in another (or the same) order.
Reordered(d1, d2) ==
    /\ Len(d1) = Len(d2)
    /\ \E f \in [DOMAIN d1 -> DOMAIN d1] :
          /\ \A i, j \in DOMAIN d1 : f[i] = f[j] => i = j
          /\ \A i \in DOMAIN d1 : d2[i] = d1[f[i]]

\* C13: two entries with the same name and source (white space around them
\* aside) have the same stream ID, and a list fetched in another order gives
\* the same IDs; and a reconciliation cycle whose fetch succeeds and returns
\* the IDs that the previous successful fetch returned finds no new ID (no
\* add, no provisioning) and no vanished ID (no removal).
C13_ReconcileIdempotent ==
    [][/\ ~booted =>
             /\ \A r1, r2 \in RawItems :
                   ( /\ strip(r1.name) = strip(r2.name)
                     /\ strip(r1.source) = strip(r2.source) )
                   => ItemId(r1) = ItemId(r2)
             /\ \A prev \in FetchLists(Streams), data \in FetchLists(Streams) :
                   Reordered(prev, data) => FetchIds(prev) = FetchIds(data)
       /\ ( /\ w_pc = "idle"
            /\ w_pc' = "cycle"
            /\ ~w_alias'
            /\ w_new' = last_fetch )
          => (w_add' = {} /\ w_rem' = {})]_vars

\* A cycle has fetched the IDs that were fetched before and are tracked, and
\* has nothing to add or remove.
C13_Witness ==
    /\ w_pc = "cycle"
    /\ ~w_alias
    /\ w_new # {}
    /\ w_new = api_items
    /\ last_fetch = w_new
    /\ w_add = {}
    /\ w_rem = {}

\* A step of the watcher thread after its fetch.
WatcherStep ==
    \/ \E s \in Streams, ok \in BOOLEAN : WatcherAdd(s, ok)
    \/ \E s \in Streams : WatcherRemoveStop(s)
    \/ \E s \in Streams : WatcherRemoveDelete(s)
    \/ WatcherFinish

\* The lifecycle state, handle, start time, credential record, restart timer
\* and rotation timer of s are the same after the step.
StreamUntouched(s) ==
    /\ server_states'[s] = server_states[s]
    /\ active_streams'[s] = active_streams[s]
    /\ stream_start_times'[s] = stream_start_times[s]
    /\ stream_cache'[s] = stream_cache[s]
    /\ restart_timers'[s] = restart_timers[s]
    /\ restart_orphans'[s] = restart_orphans[s]
    /\ stream_rotation_timers'[s] = stream_rotation_timers[s]

\* C14: for an ID that is in the successfully fetched list and in the
\* tracked set, the steps of a reconciliation cycle leave its lifecycle
\* state, handle, start time, credential record, restart timer and rotation
\* timer as they are, and the end of the cycle stores the fetched descriptor.
C14_TrackedItemKept ==
    [][\A s \in api_items :
          /\ (w_pc = "idle" /\ w_pc' = "cycle") =>
                \A data \in FetchLists(universe) :
                   (WatcherFetch(TRUE, data) /\ s \in FetchIds(data))
                   => StreamUntouched(s)
          /\ (w_pc = "cycle" /\ ~w_alias /\ s \in w_new /\ WatcherStep)
                => /\ StreamUntouched(s)
                   /\ WatcherFinish =>
                         (s \in api_items' /\ item_token'[s] = w_tokens[s])]_vars

\* A cycle has fetched a Running tracked ID with another token and is about
\* to store the descriptor.
C14_Witness ==
    \E s \in w_new \cap api_items :
        /\ w_pc = "cycle"
        /\ ~w_alias
        /\ w_add = {}
        /\ w_rem = {}
        /\ w_tokens[s] # item_token[s]
        /\ server_states[s] = "running"
        /\ stream_rotation_timers[s] = "pending"

\* C15: when start_all_servers reaches a stream that was fetched at boot and
\* has a credential record, and Popen succeeds, the stream is Running after
\* the call, with its start time recorded and its rotation timer armed.
C15_BootStart ==
    [][\A s \in boot_items :
          ( /\ StartAllStep(s, TRUE)
            /\ stream_cache[s] # NoCred )
          => /\ server_states'[s] = "running"
             /\ stream_start_times'[s]
             /\ stream_rotation_timers'[s] = "pending"]_vars

\* C16: boot provisions a credential for exactly the fetched IDs that have
\* no record in the loaded cache (and stores it unless the provisioning
\* fails); an ID with a loaded record keeps that record.
C16_BootProvisioning ==
    [][(~booted /\ booted') =>
        \A data \in FetchLists(universe), failing \in SUBSET universe :
          boot(data, failing) =>
            \A s \in Streams :
               LET loaded == load_cache(cache_file).cache
                   wanted == s \in FetchIds(data) /\ loaded[s] = NoCred
               IN  /\ (wanted /\ s \notin failing)
                        => (stream_cache'[s] = NewRecord(s) /\ live_seq'[s] = NextLive(s))
                   /\ ~(wanted /\ s \notin failing)
                        => (stream_cache'[s] = loaded[s] /\ live_seq'[s] = live_seq[s])]_vars

\* Boot has fetched an ID whose record was in the cache file, and the ID
\* still has that record and no other was provisioned for it.
C16_Witness ==
    \E s \in boot_items :
        /\ booted
        /\ startup_timer = "pending"
        /\ stream_cache[s] = Rec(1)
        /\ live_seq[s] = 1

\* C17: when the cache file is what save_cache wrote for the current cache,
\* load_cache into an empty cache gives that cache again: the same IDs, each
\* with the same liveId, stream_url, dash and status.
C17_CacheRoundTrip ==
    [][(CacheLoad /\ cache_file = save_cache(stream_cache))
          => stream_cache' = stream_cache]_vars

\* A cache with two different records, one of them with a status that is
\* not the default, has been loaded from the file saved for it.
C17_Witness ==
    /\ booted
    /\ cache_file = save_cache(stream_cache)
    /\ stream_cache["A"] # NoCred
    /\ stream_cache["B"] # NoCred
    /\ stream_cache["A"] # stream_cache["B"]
    /\ stream_cache["A"].status # UnknownStatus

\* The file is missing, empty, no JSON object or has an entry that is no
\* credential record.
Unusable(file) ==
    \/ file.kind \in {"absent", "blank", "garbage"}
    \/ file.entries = <<>>
    \/ \E i \in DOMAIN file.entries : ~ValidEntry(file.entries[i][2])

\* C18: when the cache file is missing, empty or corrupted, load_cache
\* leaves the cache empty (also when valid entries precede the invalid one)
\* and boot goes on: every fetched ID is provisioned, and gets a new record
\* unless its provisioning fails.
C18_BootWithoutCache ==
    [][(~booted /\ booted' /\ Unusable(cache_file)) =>
          /\ load_cache(cache_file).cache = EmptyCache
          /\ \A data \in FetchLists(universe), failing \in SUBSET universe :
                boot(data, failing) =>
                  \A s \in Streams :
                     stream_cache'[s] =
                        IF s \in FetchIds(data) \ failing THEN NewRecord(s) ELSE NoCred]_vars

\* Boot found a corrupted cache file and provisioned a new record for a
\* fetched ID.
C18_Witness ==
    \E s \in boot_items :
        /\ booted
        /\ backup_made
        /\ startup_timer = "pending"
        /\ stream_cache[s] = Rec(2)

\* No operation that changes the cache is under way.
NoCacheOperation ==
    /\ booted
    /\ w_pc = "idle"
    /\ \A s \in Streams : rot_threads[s] = 0 /\ rot_save[s] = NoSave

\* C19: when no operation that changes the cache is under way (boot, every
\* reconciliation cycle and every rotation step have completed), the cache
\* that the file holds is the in-memory cache.
C19_DurableFlush ==
    NoCacheOperation => load_cache(cache_file).cache = stream_cache

\* Every stream other than s keeps its state, credential record, handle,
\* start time, processes and timers in this step.
OthersUntouched(s) ==
    /\ \A o \in Streams \ {s} :
          /\ StreamUntouched(o)
          /\ new_timers'[o] = new_timers[o]
          /\ afterrot_timers'[o] = afterrot_timers[o]
          /\ retry_timers'[o] = retry_timers[o]
          /\ rot_threads'[o] = rot_threads[o]
    /\ \A p \in Pids :
          proc_sid[p] # s => (proc_status'[p] = proc_status[p] /\ mon_pc'[p] = mon_pc[p])

\* A crash of s is handled in this step: by the monitor thread of one of its
\* processes, or by start_ffmpeg when Popen raises.
CrashHandled(s) ==
    \/ crash_notes'[s] = crash_notes[s] + 1
    \/ \E p \in Pids : proc_sid[p] = s /\ mon_pc[p] # mon_pc'[p]

\* C20: a failed provisioning of a new stream leaves the cycle running with
\* the other new IDs still to provision and the vanished IDs still to remove
\* (the cycle ends only when both loops are done), and it changes nothing of
\* any other stream; a failed rotation and a handled crash of a stream change
\* nothing of any other stream.
C20_FailureIsolation ==
    [][\A s \in Streams :
          /\ WatcherAdd(s, FALSE) =>
                /\ w_pc' = "cycle"
                /\ w_add' = w_add \ {s}
                /\ w_rem' = w_rem
                /\ OthersUntouched(s)
          /\ WatcherFinish => (w_add = {} /\ w_rem = {})
          /\ (RotateFail(s) \/ CrashHandled(s)) => OthersUntouched(s)]_vars

\* In one cycle the provisioning of a new stream failed and another new
\* stream was provisioned and scheduled.
C20_Witness ==
    \E s \in Streams, o \in Streams :
        /\ s # o
        /\ w_pc = "cycle"
        /\ {s, o} \subseteq w_new \ api_items
        /\ w_add = {}
        /\ stream_cache[s] = NoCred
        /\ server_states[s] = "none"
        /\ stream_cache[o] # NoCred
        /\ server_states[o] = "starting"
        /\ new_timers[o] = 1

\* C21: whatever the outcome of the notification (sent, error reply,
\* exception in the request), the step that emits it -- crash handling
\* after a failed launch, the crash report of a monitor, the rotation
\* report, boot, shutdown -- is the very step it is when the notification
\* succeeds: tg returns to its caller, which completes the transition.
C21_NotifyFailureContained ==
    [][\A out \in TgOutcomes :
          /\ \A s \in Streams :
                /\ \A ro \in {restart_orphans, [restart_orphans EXCEPT ![s] = @ - 1]} :
                      handle_stream_crash(s, out, [restart_timers EXCEPT ![s] = "none"], ro)
                      => handle_stream_crash(s, "ok", [restart_timers EXCEPT ![s] = "none"], ro)
                /\ rotation_report(s, out) => rotation_report(s, "ok")
          /\ \A p \in Pids : monitor_report(p, out) => monitor_report(p, "ok")
          /\ (~booted /\ booted') =>
                \A data \in FetchLists(universe), failing \in SUBSET universe :
                    boot_notified(data, failing, out) => boot_notified(data, failing, "ok")
          /\ shutdown_notified(out) => shutdown_notified("ok")]_vars

\* The only crash report of stream A failed, and A is Restarting with its
\* restart timer armed.
C21_Witness ==
    /\ tg_log = "crash"
    /\ crash_notes["A"] = 1
    /\ server_states["A"] = "restarting"
    /\ restart_timers["A"] = "pending"
    /\ active_streams["A"] = NoPid

\* C22: the exit of a process of s seen by its monitor while s is Running
\* is reported once, whatever the return code, and handled: Restarting, no
\* handle, no start time, the restart timer armed; a launch of s from
\* Starting in which Popen raises is handled in the same way in one step.
C22_CrashHandling ==
    [][/\ \A p \in Pids, code \in ExitCodes :
             (MonitorObserve(p) /\ monitor_exit(p, code)
                /\ server_states[proc_sid[p]] = "running") =>
                /\ mon_pc'[p] = "notify"
                /\ crash_notes'[proc_sid[p]] = crash_notes[proc_sid[p]] + 1
       /\ \A p \in Pids :
             MonitorCrash(p) =>
                /\ server_states'[proc_sid[p]] = "restarting"
                /\ active_streams'[proc_sid[p]] = NoPid
                /\ ~stream_start_times'[proc_sid[p]]
                /\ restart_timers'[proc_sid[p]] = "pending"
                /\ crash_notes' = crash_notes
       /\ \A s \in Streams :
             ( /\ \/ AfterRotationTimerFire(s, FALSE)
                  \/ NewServerTimerFire(s, FALSE)
               /\ system_state = "running"
               /\ server_states[s] = "starting"
               /\ stream_cache[s] # NoCred ) =>
                /\ server_states'[s] = "restarting"
                /\ active_streams'[s] = NoPid
                /\ ~stream_start_times'[s]
                /\ restart_timers'[s] = "pending"
                /\ crash_notes'[s] = crash_notes[s] + 1]_vars

\* C23: the step that takes a stream from Running to Restarting leaves it
\* without a pending rotation timer, and no rotation timer is armed for it
\* as long as it does not reach Running.
C23_CrashCancelsRotation ==
    [][\A s \in Streams :
          /\ (server_states[s] = "running" /\ server_states'[s] = "restarting") =>
                stream_rotation_timers'[s] # "pending"
          /\ ( /\ server_states[s] = "restarting"
               /\ stream_rotation_timers[s] # "pending"
               /\ server_states'[s] # "running" ) =>
                stream_rotation_timers'[s] # "pending"]_vars

\* The states from which the ordering lets a stream enter `to`; a stream
\* without a state entry may enter Starting, Running or (its first launch
\* failing) Restarting, and any stream may lose its entry (removal).
StatesBefore(to) ==
    CASE to = "running"    -> {"none", "starting", "restarting"}
      [] to = "restarting" -> {"none", "running", "starting"}
      [] to = "rotating"   -> {"running", "failed"}
      [] to = "starting"   -> {"none", "rotating"}
      [] to = "failed"     -> {"rotating"}
      [] to = "none"       -> LifecycleStates

\* C24: every change of a stream's state follows the ordering
\* (Starting or Restarting) -> Running -> (Restarting or Rotating) ->
\* (Starting or Failed); Rotating is entered only from Running or Failed.
C24_StateOrdering ==
    [][\A s \in Streams :
          server_states'[s] # server_states[s] =>
              server_states[s] \in StatesBefore(server_states'[s])]_vars

C26_RotationFailure ==
    [][\A s \in Streams :
          /\ RotateFail(s) =>
                /\ server_states'[s] = "failed"
                /\ stream_cache'[s] = NoCred
                /\ active_streams'[s] = NoPid
                /\ crash_notes' = crash_notes
                /\ restart_timers' = restart_timers
                /\ retry_timers'[s] = retry_timers[s] + 1
          /\ server_states[s] = "failed" =>
                /\ crash_notes'[s] = crash_notes[s]
                /\ restart_timers'[s] = "pending" => restart_timers[s] = "pending"]_vars

\* A deferred callback of s runs in this step.
CallbackFires(s) ==
    \/ \E held \in BOOLEAN, ok \in BOOLEAN : RestartTimerFire(s, held, ok)
    \/ \E ok \in BOOLEAN : NewServerTimerFire(s, ok)
    \/ \E ok \in BOOLEAN : AfterRotationTimerFire(s, ok)
    \/ RotationTimerFire(s)
    \/ RetryTimerFire(s)

\* The step launches no process for s and creates or changes no state
\* entry, credential record or timer of s.
NoOpFor(s) ==
    /\ server_states'[s] = server_states[s]
    /\ stream_cache'[s] = stream_cache[s]
    /\ active_streams'[s] = active_streams[s]
    /\ \A p \in Pids : proc_status[p] = "unborn" => proc_status'[p] = "unborn"
    /\ restart_timers'[s] = "pending" => restart_timers[s] = "pending"
    /\ stream_rotation_timers'[s] = "pending" => stream_rotation_timers[s] = "pending"
    /\ restart_orphans'[s] <= restart_orphans[s]
    /\ new_timers'[s] <= new_timers[s]
    /\ afterrot_timers'[s] <= afterrot_timers[s]
    /\ retry_timers'[s] <= retry_timers[s]
    /\ rot_threads'[s] <= rot_threads[s]

\* C27: a deferred callback of a stream that fires after the stream's
\* removal completed (and the ID was not desired since) is a no-op.
C27_StaleCallbackNoOp ==
    [][\A s \in removed : (s \notin api_items /\ CallbackFires(s)) => NoOpFor(s)]_vars

\* The crash handler was called for the exit of process p.
HandlerCalled(p) == mon_pc[p] \in {"notify", "swallowed", "crashed"}

C29_ResolutionBounded ==
    /\ [](/\ gsd.attempt <= MaxAttempts
          /\ gsd.pc = "raised" => (gsd.attempt = MaxAttempts /\ gsd.result = NoCred)
          /\ gsd.pc = "returned" => gsd.result.liveId = gsd.live_id)
    /\ [][/\ \A reply \in Replies :
                ResolveAttempt(reply) =>
                    /\ gsd'.attempt = gsd.attempt + 1
                    /\ IF has_stream_url(reply)
                       THEN /\ gsd'.pc = "returned"
                            /\ gsd'.result = preview(gsd.live_id, reply.data)
                       ELSE /\ gsd'.pc = "loop"
                            /\ gsd'.result = NoCred
          /\ (gsd.pc = "loop" /\ gsd'.pc = "raised") => gsd.attempt = MaxAttempts
          /\ gsd.pc \in {"returned", "raised"} => gsd' = gsd]_vars
    /\ <>(gsd.pc \in {"returned", "raised"})

\* The last attempt got the URL after all the others had failed, and the
\* record carries the defaults for the fields the reply lacked.
C29_Witness ==
    /\ gsd.pc = "returned"
    /\ gsd.attempt = MaxAttempts
    /\ gsd.result.dash = NoDash
    /\ gsd.result.status = UnknownStatus

\* C30: handling a command changes no stream state, credential record,
\* process or timer; a requester's accepted command comes at least five
\* seconds after that requester's previous accepted one; and a rejected
\* command leaves the requester's entry in last_command_time as it was.
C30_CommandsReadOnlyRateLimited ==
    [][\A u \in Requesters, command \in Commands :
          handle_telegram_command(u, command) =>
              /\ UNCHANGED <<stateVars, gsd>>
              /\ bot'.accepted[u] # bot.accepted[u] =>
                    \/ bot.accepted[u] = NoTime
                    \/ bot'.accepted[u] - bot.accepted[u] >= RateWindow
              /\ rate_limited(bot.last_command_time, u, bot.now) =>
                    bot'.last_command_time = bot.last_command_time]_vars

\* The step is the whole of graceful_shutdown.
ShutdownStep == system_state = "running" /\ system_state' = "stopping"

\* Some process is started in the step.
ProcessLaunched == \E p \in Pids : proc_status[p] = "unborn" /\ proc_status'[p] = "alive"

\* C31: graceful_shutdown sets the state to stopping, cancels the startup
\* timer and every registered restart and rotation timer and stops every
\* tracked process, so that at its end no tracked process is alive and both
\* timer maps are empty; and once the state is stopping, no callback or
\* thread launches a new process.
C31_Shutdown ==
    [][/\ ShutdownStep =>
            /\ startup_timer' # "pending"
            /\ \A s \in Streams :
                  /\ restart_timers'[s] = "none"
                  /\ stream_rotation_timers'[s] = "none"
                  /\ active_streams'[s] = NoPid
            /\ \A p \in Pids :
                  (proc_status[p] = "alive" /\ active_streams[proc_sid[p]] = p)
                      => proc_status'[p] = "killed_shutdown"
       /\ system_state = "stopping" => ~ProcessLaunched]_vars
====
